---- MODULE Spec2Model ----
(***************************************************************************)
(* A model of src/main.py (GammaChart): the XPM pixel-map builders, the    *)
(* XPM parser create_photo_image, the gamma computation and tile layout of *)
(* GammaChart.__init__, and the control flow of MainWindow.__init__ and    *)
(* main.                                                                   *)
(*                                                                         *)
(* A Python str is a sequence of one-character strings, so that indexing,  *)
(* slicing, strip() and split() are modelled by what they do.  Dictionary  *)
(* keys that are only ever compared (image names) are TLA+ strings.        *)
(* A gamma value is held in tenths (2.2 is 22), the exponent 1.0/gamma is  *)
(* the rational 10/gamma.                                                  *)
(***************************************************************************)
EXTENDS Integers, Sequences, FiniteSets, TLC

VARIABLES pc, bindings, tabs, chart, xpm, selected, lastEvent

vars == <<pc, bindings, tabs, chart, xpm, selected, lastEvent>>

(***************************************************************************)
(* Python str and int helpers                                              *)
(***************************************************************************)
SP == " "

DecDigits == <<"0", "1", "2", "3", "4", "5", "6", "7", "8", "9">>

HexDigits == <<"0", "1", "2", "3", "4", "5", "6", "7", "8", "9",
               "a", "b", "c", "d", "e", "f">>

\* str(n) / f"{n}" for an int n >= 0
RECURSIVE Str(_)
Str(n) == IF n < 10 THEN <<DecDigits[n + 1]>>
          ELSE Str(n \div 10) \o <<DecDigits[(n % 10) + 1]>>

\* format(n, "x") for an int n >= 0
RECURSIVE Hex(_)
Hex(n) == IF n < 16 THEN <<HexDigits[n + 1]>>
          ELSE Hex(n \div 16) \o <<HexDigits[(n % 16) + 1]>>

\* zero padding of the format spec "02"
RECURSIVE ZeroPad(_, _)
ZeroPad(s, width) == IF Len(s) >= width THEN s ELSE ZeroPad(<<"0">> \o s, width)

\* f"{n:02x}"
Hex02(n) == ZeroPad(Hex(n), 2)

\* s * n
RECURSIVE Repeat(_, _)
Repeat(s, n) == IF n <= 0 THEN <<>> ELSE s \o Repeat(s, n - 1)

\* s[a:b] with 0 <= a <= b (a slice is clipped to the string, it never fails)
Slice(s, a, b) == SubSeq(s, a + 1, IF b < Len(s) THEN b ELSE Len(s))

RECURSIVE LStrip(_)
LStrip(s) == IF s # <<>> /\ Head(s) = SP THEN LStrip(Tail(s)) ELSE s

RECURSIVE RStrip(_)
RStrip(s) == IF s # <<>> /\ s[Len(s)] = SP THEN RStrip(SubSeq(s, 1, Len(s) - 1)) ELSE s

\* s.strip()
Strip(s) == RStrip(LStrip(s))

\* the first whitespace-free run of s (s does not start with whitespace)
RECURSIVE FirstWord(_)
FirstWord(s) == IF s = <<>> \/ Head(s) = SP THEN <<>>
                ELSE <<Head(s)>> \o FirstWord(Tail(s))

\* s.split(): the whitespace-separated words of s
RECURSIVE Split(_)
Split(s) == LET t == LStrip(s)
                w == FirstWord(t)
            IN  IF t = <<>> THEN <<>>
                ELSE <<w>> \o Split(SubSeq(t, Len(w) + 1, Len(t)))

DigitValue(c) == CHOOSE d \in 0..9 : DecDigits[d + 1] = c

\* int(s) for a string of decimal digits
RECURSIVE ParseInt(_)
ParseInt(s) == IF s = <<>> THEN 0
          ELSE ParseInt(SubSeq(s, 1, Len(s) - 1)) * 10 + DigitValue(s[Len(s)])

(***************************************************************************)
(* Xpm, SingleColorXpm, AlternateXpm                                       *)
(***************************************************************************)
size == 16

\* SingleColorXpm.__init__ as it would be with "for _ in range(Xpm.size)":
\* half the rows the header announces
SingleColorXpmHalfRows(red, green, blue) ==
    << Str(size * 2) \o <<SP>> \o Str(size * 2) \o <<SP, "1", SP, "1">>,
       <<SP, SP, "c", SP, "#">> \o red \o green \o blue >>
    \o [i \in 1..size |-> Repeat(<<SP>>, size * 2)]

\* SingleColorXpm.__init__: the header, one colour line keyed by a blank,
\* then size * 2 rows of size * 2 blanks
SingleColorXpm(red, green, blue) ==
    << Str(size * 2) \o <<SP>> \o Str(size * 2) \o <<SP, "1", SP, "1">>,
       <<SP, SP, "c", SP, "#">> \o red \o green \o blue >>
    \o [i \in 1..(size * 2) |-> Repeat(<<SP>>, size * 2)]

\* AlternateXpm.__init__: the header, the colour lines keyed by a blank and
\* by a dot, then size times the two rows ". " * size and " ." * size
RECURSIVE AlternateRows(_)
AlternateRows(n) ==
    IF n <= 0 THEN <<>>
    ELSE << Repeat(<<".", SP>>, size), Repeat(<<SP, ".">>, size) >>
         \o AlternateRows(n - 1)

\* AlternateXpm.__init__ as it would be with the two appended rows in the
\* other order
AlternateXpmRowsSwapped(red1, green1, blue1, red2, green2, blue2) ==
    << Str(size * 2) \o <<SP>> \o Str(size * 2) \o <<SP, "2", SP, "1">>,
       <<SP, SP, "c", SP, "#">> \o red1 \o green1 \o blue1,
       <<".", SP, "c", SP, "#">> \o red2 \o green2 \o blue2 >>
    \o [i \in 1..(size * 2) |->
          IF i % 2 = 1 THEN Repeat(<<SP, ".">>, size) ELSE Repeat(<<".", SP>>, size)]

\* AlternateXpm.__init__ as it would be with the second colour line keyed
\* by a blank like the first
AlternateXpmOneKey(red1, green1, blue1, red2, green2, blue2) ==
    << Str(size * 2) \o <<SP>> \o Str(size * 2) \o <<SP, "2", SP, "1">>,
       <<SP, SP, "c", SP, "#">> \o red1 \o green1 \o blue1,
       <<SP, SP, "c", SP, "#">> \o red2 \o green2 \o blue2 >>
    \o AlternateRows(size)

AlternateXpm(red1, green1, blue1, red2, green2, blue2) ==
    << Str(size * 2) \o <<SP>> \o Str(size * 2) \o <<SP, "2", SP, "1">>,
       <<SP, SP, "c", SP, "#">> \o red1 \o green1 \o blue1,
       <<".", SP, "c", SP, "#">> \o red2 \o green2 \o blue2 >>
    \o AlternateRows(size)

(***************************************************************************)
(* Xpm.create_photo_image                                                  *)
(***************************************************************************)
\* header = xpm_data[0].strip().split(); map(int, header)
Header(xpm_data) ==
    LET h == Split(Strip(xpm_data[1]))
    IN  [width |-> ParseInt(h[1]), height |-> ParseInt(h[2]),
         num_colors |-> ParseInt(h[3]), chars_per_pixel |-> ParseInt(h[4])]

\* the loop filling color_map as it would be with "color = parts[0]"
RECURSIVE ColorMapFirstWord(_, _)
ColorMapFirstWord(xpm_data, n) ==
    IF n <= 0 THEN <<>>
    ELSE LET line  == xpm_data[n + 1]
             char  == <<line[1]>>
             parts == Split(Strip(line))
             color == parts[1]
         IN  (char :> color) @@ ColorMapFirstWord(xpm_data, n - 1)

\* the loop filling color_map: key line[0], value the last word of the line;
\* a later line overrides an earlier one with the same key
RECURSIVE ColorMapUpTo(_, _)
ColorMapUpTo(xpm_data, n) ==
    IF n <= 0 THEN <<>>
    ELSE LET line  == xpm_data[n + 1]
             char  == <<line[1]>>
             parts == Split(Strip(line))
             color == parts[Len(parts)]
         IN  (char :> color) @@ ColorMapUpTo(xpm_data, n - 1)

ColorMap(xpm_data) == ColorMapUpTo(xpm_data, Header(xpm_data).num_colors)

\* char = pixel_row[x * chars_per_pixel : (x + 1) * chars_per_pixel] with
\* pixel_row = xpm_data[y + 1 + num_colors], for x and y counted from 0 and
\* hd the parsed header
PixelChar(xpm_data, hd, x, y) ==
    Slice(xpm_data[y + 2 + hd.num_colors],
          x * hd.chars_per_pixel, (x + 1) * hd.chars_per_pixel)

\* The PhotoImage built from xpm_data: rows[y + 1][x + 1] is the colour put
\* at (x, y).  A missing row is Python's IndexError and a symbol missing from
\* color_map its KeyError; either ends create_photo_image with no image.
create_photo_image(xpm_data) ==
    LET hd == Header(xpm_data)
        color_map == ColorMap(xpm_data)
    IN  IF Len(xpm_data) < 1 + hd.num_colors + hd.height
        THEN [error |-> "IndexError", rows |-> <<>>]
        ELSE IF \E y \in 0..(hd.height - 1), x \in 0..(hd.width - 1) :
                   PixelChar(xpm_data, hd, x, y) \notin DOMAIN color_map
        THEN [error |-> "KeyError", rows |-> <<>>]
        ELSE [error |-> "none",
              rows  |-> [y \in 1..hd.height |->
                           [x \in 1..hd.width |->
                              color_map[PixelChar(xpm_data, hd, x - 1, y - 1)]]]]

(***************************************************************************)
(* GammaChart.__init__: the corrected levels                               *)
(*                                                                         *)
(* int(round(pow(v / 255.0, 1.0 / gamma) * 255)) is computed exactly.      *)
(* With 1.0 / gamma = p / q in lowest terms the real value is              *)
(* r = scale * (v / 255) ^ (p / q), and round(r) is the least y with       *)
(* r < y + 1/2, that is with (2 * scale) ^ q * v ^ p <                     *)
(* (2 * y + 1) ^ q * 255 ^ p.  For scale = 255 the two sides differ in     *)
(* parity when v > 0, so r is never half an integer and Python's           *)
(* round-half-to-even never applies.  The powers exceed 32-bit integers    *)
(* and are held as little-endian sequences of decimal limbs.  The          *)
(* double-precision results of the program agree with the exact ones: no r *)
(* is nearer than 0.1 to half an integer.                                  *)
(***************************************************************************)
LimbBase == 10000

RECURSIVE BigMulCarry(_, _, _)
BigMulCarry(a, k, carry) ==
    IF a = <<>> THEN (IF carry = 0 THEN <<>> ELSE <<carry>>)
    ELSE LET t == Head(a) * k + carry
         IN  <<t % LimbBase>> \o BigMulCarry(Tail(a), k, t \div LimbBase)

\* a * k for a limb sequence a and 0 <= k < LimbBase
BigMul(a, k) == IF k = 0 THEN <<>> ELSE BigMulCarry(a, k, 0)

\* a * k ^ n
RECURSIVE BigMulPow(_, _, _)
BigMulPow(a, k, n) == IF n = 0 THEN a ELSE BigMulPow(BigMul(a, k), k, n - 1)

RECURSIVE BigLessFrom(_, _, _)
BigLessFrom(a, b, i) ==
    IF i = 0 THEN FALSE
    ELSE IF a[i] # b[i] THEN a[i] < b[i]
    ELSE BigLessFrom(a, b, i - 1)

\* a < b
BigLess(a, b) ==
    IF Len(a) # Len(b) THEN Len(a) < Len(b) ELSE BigLessFrom(a, b, Len(a))

RECURSIVE Gcd(_, _)
Gcd(a, b) == IF b = 0 THEN a ELSE Gcd(b, a % b)

\* r < y + 1/2, for lhs = (2 * scale) ^ q * v ^ p
RoundsBelow(y, lhs, p, q) ==
    BigLess(lhs, BigMulPow(BigMulPow(<<1>>, 2 * y + 1, q), 255, p))

\* some hi >= start with r < hi + 1/2
RECURSIVE RoundUpper(_, _, _, _)
RoundUpper(hi, lhs, p, q) ==
    IF RoundsBelow(hi, lhs, p, q) THEN hi ELSE RoundUpper(2 * hi + 1, lhs, p, q)

\* the least y in lo..hi with r < y + 1/2, given that hi is one
RECURSIVE RoundBetween(_, _, _, _, _)
RoundBetween(lo, hi, lhs, p, q) ==
    IF lo >= hi THEN lo
    ELSE LET mid == (lo + hi) \div 2
         IN  IF RoundsBelow(mid, lhs, p, q)
             THEN RoundBetween(lo, mid, lhs, p, q)
             ELSE RoundBetween(mid + 1, hi, lhs, p, q)

\* int(round(pow(v / 255.0, 1.0 / gamma) * scale)), gamma in tenths
GammaPow(v, gamma, scale) ==
    LET p   == 10 \div Gcd(10, gamma)
        q   == gamma \div Gcd(10, gamma)
        lhs == BigMulPow(BigMulPow(<<1>>, 2 * scale, q), v, p)
    IN  RoundBetween(0, RoundUpper(0, lhs, p, q), lhs, p, q)

\* the corrected level as it would be scaled back with "* 256"
CorrectedScaled256(v, gamma) == GammaPow(v, gamma, 256)

\* the corrected level of input level v: lines 191-199
Corrected(v, gamma) == GammaPow(v, gamma, 255)

\* the input levels as they would be taken as quarters of 256
inputsOf256 == <<0, 64, 128, 192, 255>>

\* the five input levels 0, 63, 127, 191, 255 of lines 191-199
inputs == <<0, 63, 127, 191, 255>>

\* the five values int(round(...)), in the order of lines 191-199
CorrectedLevels(gamma) == [i \in 1..5 |-> Corrected(inputs[i], gamma)]

\* v000, v025, v050, v075, v100: the f"{...:02x}" strings of those values
Levels(corrected) ==
    [v000 |-> Hex02(corrected[1]),
     v025 |-> Hex02(corrected[2]),
     v050 |-> Hex02(corrected[3]),
     v075 |-> Hex02(corrected[4]),
     v100 |-> Hex02(corrected[5])]

(***************************************************************************)
(* GammaChart.__init__: the images dictionary, in the order of its literal *)
(***************************************************************************)
\* one entry per key: the Xpm class constructed and its arguments
imageTable(v) ==
    <<
       [key |-> "all_a025", cls |-> "AlternateXpm",
        args |-> <<v.v000, v.v000, v.v000, v.v050, v.v050, v.v050>>],
       [key |-> "all_a050", cls |-> "AlternateXpm",
        args |-> <<v.v000, v.v000, v.v000, v.v100, v.v100, v.v100>>],
       [key |-> "all_a075", cls |-> "AlternateXpm",
        args |-> <<v.v050, v.v050, v.v050, v.v100, v.v100, v.v100>>],
       [key |-> "all_s025", cls |-> "SingleColorXpm",
        args |-> <<v.v025, v.v025, v.v025>>],
       [key |-> "all_s050", cls |-> "SingleColorXpm",
        args |-> <<v.v050, v.v050, v.v050>>],
       [key |-> "all_s075", cls |-> "SingleColorXpm",
        args |-> <<v.v075, v.v075, v.v075>>],
       [key |-> "red_a025", cls |-> "AlternateXpm",
        args |-> <<v.v000, v.v000, v.v000, v.v050, v.v000, v.v000>>],
       [key |-> "red_a050", cls |-> "AlternateXpm",
        args |-> <<v.v000, v.v000, v.v000, v.v100, v.v000, v.v000>>],
       [key |-> "red_a075", cls |-> "AlternateXpm",
        args |-> <<v.v050, v.v000, v.v000, v.v100, v.v000, v.v000>>],
       [key |-> "red_s025", cls |-> "SingleColorXpm",
        args |-> <<v.v025, v.v000, v.v000>>],
       [key |-> "red_s050", cls |-> "SingleColorXpm",
        args |-> <<v.v050, v.v000, v.v000>>],
       [key |-> "red_s075", cls |-> "SingleColorXpm",
        args |-> <<v.v075, v.v000, v.v000>>],
       [key |-> "green_a025", cls |-> "AlternateXpm",
        args |-> <<v.v000, v.v000, v.v000, v.v000, v.v050, v.v000>>],
       [key |-> "green_a050", cls |-> "AlternateXpm",
        args |-> <<v.v000, v.v000, v.v000, v.v000, v.v100, v.v000>>],
       [key |-> "green_a075", cls |-> "AlternateXpm",
        args |-> <<v.v000, v.v050, v.v000, v.v000, v.v100, v.v000>>],
       [key |-> "green_s025", cls |-> "SingleColorXpm",
        args |-> <<v.v000, v.v025, v.v000>>],
       [key |-> "green_s050", cls |-> "SingleColorXpm",
        args |-> <<v.v000, v.v050, v.v000>>],
       [key |-> "green_s075", cls |-> "SingleColorXpm",
        args |-> <<v.v000, v.v075, v.v000>>],
       [key |-> "blue_a025", cls |-> "AlternateXpm",
        args |-> <<v.v000, v.v000, v.v000, v.v000, v.v000, v.v050>>],
       [key |-> "blue_a050", cls |-> "AlternateXpm",
        args |-> <<v.v000, v.v000, v.v000, v.v000, v.v000, v.v100>>],
       [key |-> "blue_a075", cls |-> "AlternateXpm",
        args |-> <<v.v000, v.v000, v.v050, v.v000, v.v000, v.v100>>],
       [key |-> "blue_s025", cls |-> "SingleColorXpm",
        args |-> <<v.v000, v.v000, v.v025>>],
       [key |-> "blue_s050", cls |-> "SingleColorXpm",
        args |-> <<v.v000, v.v000, v.v050>>],
       [key |-> "blue_s075", cls |-> "SingleColorXpm",
        args |-> <<v.v000, v.v000, v.v075>>]
    >>

\* the .data of the Xpm object an entry constructs
XpmData(e) ==
    IF e.cls = "SingleColorXpm"
    THEN SingleColorXpm(e.args[1], e.args[2], e.args[3])
    ELSE AlternateXpm(e.args[1], e.args[2], e.args[3],
                      e.args[4], e.args[5], e.args[6])

(***************************************************************************)
(* GammaChart.__init__: the layout                                         *)
(***************************************************************************)
xpm_side == size * 2

\* patterns as it would be with every row starting on an 'a' tile
patternsRowsAlike ==
    [n \in 1..36 |->
        LET col == (n - 1) % 12
            row == (n - 1) \div 12
        IN  << (IF col % 2 = 0 THEN "a" ELSE "s")
                   \o <<"025", "050", "075">>[(col \div 4) + 1], col, row >>]

\* layout: (name, second, third) as written at line 291
layout == << <<"all", 0, 0>>, <<"red", 3, 0>>, <<"green", 6, 0>>, <<"blue", 9, 0>> >>

\* patterns: (pattern_name, second, third) as written at lines 299-336
patterns ==
    <<
       <<"a025", 0, 0>>, <<"s025", 1, 0>>, <<"a025", 2, 0>>, <<"s025", 3, 0>>,
       <<"a050", 4, 0>>, <<"s050", 5, 0>>, <<"a050", 6, 0>>, <<"s050", 7, 0>>,
       <<"a075", 8, 0>>, <<"s075", 9, 0>>, <<"a075", 10, 0>>, <<"s075", 11, 0>>,
       <<"s025", 0, 1>>, <<"a025", 1, 1>>, <<"s025", 2, 1>>, <<"a025", 3, 1>>,
       <<"s050", 4, 1>>, <<"a050", 5, 1>>, <<"s050", 6, 1>>, <<"a050", 7, 1>>,
       <<"s075", 8, 1>>, <<"a075", 9, 1>>, <<"s075", 10, 1>>, <<"a075", 11, 1>>,
       <<"a025", 0, 2>>, <<"s025", 1, 2>>, <<"a025", 2, 2>>, <<"s025", 3, 2>>,
       <<"a050", 4, 2>>, <<"s050", 5, 2>>, <<"a050", 6, 2>>, <<"s050", 7, 2>>,
       <<"a075", 8, 2>>, <<"s075", 9, 2>>, <<"a075", 10, 2>>, <<"s075", 11, 2>>
    >>

\* f"{color_name}_{pattern_name}"
img_key(color_name, pattern_name) == color_name \o "_" \o pattern_name

\* the inner loop body as it would be with the patterns entry unpacked as
\* "pattern_name, row, col"
PlaceItemRowFirst(items, images, l, p) ==
    LET color_name   == l[1]
        row_offset   == l[2]
        col_offset   == l[3]
        pattern_name == p[1]
        row          == p[2]
        col          == p[3]
        key          == img_key(color_name, pattern_name)
    IN  IF key \in DOMAIN images
        THEN Append(items, [x |-> (col + col_offset) * xpm_side,
                            y |-> (row + row_offset) * xpm_side,
                            image |-> key])
        ELSE items

\* One pass of the inner loop body for layout entry l and patterns entry p,
\* unpacked as "color_name, row_offset, col_offset" and
\* "pattern_name, col, row": the canvas items after create_image.
PlaceItem(items, images, l, p) ==
    LET color_name   == l[1]
        row_offset   == l[2]
        col_offset   == l[3]
        pattern_name == p[1]
        col          == p[2]
        row          == p[3]
        key          == img_key(color_name, pattern_name)
    IN  IF key \in DOMAIN images
        THEN Append(items, [x |-> (col + col_offset) * xpm_side,
                            y |-> (row + row_offset) * xpm_side,
                            image |-> key])
        ELSE items

\* the inner loop "for pattern_name, col, row in patterns" for layout entry
\* l, from patterns entry n on
RECURSIVE PlacePatterns(_, _, _, _)
PlacePatterns(items, images, l, n) ==
    IF n > Len(patterns) THEN items
    ELSE PlacePatterns(PlaceItem(items, images, l, patterns[n]), images, l, n + 1)

(***************************************************************************)
(* The run: main, MainWindow.__init__, GammaChart.__init__, the event loop *)
(*                                                                         *)
(* pc        where main is: "start", "build" (MainWindow.__init__ up to    *)
(*           the last notebook.add), "display" (the window packed and      *)
(*           centred, __init__ returned), "mainloop", "exit"; "crashed"    *)
(*           after an exception left GammaChart.__init__                   *)
(* bindings  the commands bound to self.quit                               *)
(* tabs      the charts added to the notebook, in order                    *)
(* chart     the GammaChart under construction: its stage, gamma, levels,  *)
(*           images (key to PhotoImage pixels), canvas items, loop index   *)
(* xpm       the Xpm object whose data create_photo_image last received    *)
(* selected  the notebook's selected tab (0 while it has none)             *)
(* lastEvent the last event the event loop dispatched                      *)
(***************************************************************************)
\* the GammaChart calls as they would be in ascending order of gamma
gammasAscending == <<10, 18, 20, 22>>

\* the gamma values of the four GammaChart calls, in tenths, in call order
gammas == <<22, 20, 18, 10>>

QuitCommands == {"WM_DELETE_WINDOW", "File>Quit", "<Control-q>"}

NoChart == [stage |-> "none", gamma |-> 0, corrected |-> <<>>, levels |-> <<>>,
            images |-> <<>>, _images |-> <<>>, items |-> <<>>, li |-> 0]

NoXpm == [cls |-> "none", key |-> "", args |-> <<>>, data |-> <<>>]

Init ==
    /\ pc = "start"
    /\ bindings = {}
    /\ tabs = <<>>
    /\ chart = NoChart
    /\ xpm = NoXpm
    /\ selected = 0
    /\ lastEvent = "none"

\* MainWindow.__init__ up to the creation of the notebook: the three ways to
\* quit are bound to self.quit
WindowSetup ==
    /\ pc = "start"
    /\ pc' = "build"
    /\ bindings' = QuitCommands
    /\ UNCHANGED <<tabs, chart, xpm, selected, lastEvent>>

\* GammaChart(notebook, gamma=...) is called: the canvas is created and the
\* five levels are computed
ChartBegin ==
    /\ pc = "build"
    /\ chart.stage = "none"
    /\ Len(tabs) < Len(gammas)
    /\ LET gamma     == gammas[Len(tabs) + 1]
           corrected == CorrectedLevels(gamma)
       IN  chart' = [NoChart EXCEPT !.stage = "images", !.gamma = gamma,
                                    !.corrected = corrected,
                                    !.levels = Levels(corrected)]
    /\ UNCHANGED <<pc, bindings, tabs, xpm, selected, lastEvent>>

\* the next entry of the images dictionary is evaluated: the Xpm object is
\* constructed and create_photo_image turns its data into a PhotoImage; an
\* exception leaves __init__, MainWindow.__init__ and main
CreateImage ==
    /\ pc = "build"
    /\ chart.stage = "images"
    /\ LET table == imageTable(chart.levels)
           e     == table[Cardinality(DOMAIN chart.images) + 1]
           data  == XpmData(e)
           image == create_photo_image(data)
           all   == (e.key :> image) @@ chart.images
       IN  /\ xpm' = [cls |-> e.cls, key |-> e.key, args |-> e.args, data |-> data]
           /\ IF image.error # "none"
              THEN /\ pc' = "crashed"
                   /\ chart' = chart
              ELSE /\ pc' = pc
                   /\ chart' = [chart EXCEPT
                          !.images = all,
                          !.stage = IF Cardinality(DOMAIN all) = Len(table)
                                    THEN "retain" ELSE "images"]
    /\ UNCHANGED <<bindings, tabs, selected, lastEvent>>

\* self._images = list(images.values()): the images are named by their
\* keys, in insertion order; the Xpm temporaries are gone
RetainImages ==
    /\ pc = "build"
    /\ chart.stage = "retain"
    /\ LET table == imageTable(chart.levels)
       IN  chart' = [chart EXCEPT !._images = [i \in 1..Len(table) |-> table[i].key],
                                  !.stage = "place", !.li = 1]
    /\ xpm' = NoXpm
    /\ UNCHANGED <<pc, bindings, tabs, selected, lastEvent>>

\* one pass of the outer placement loop: every pattern of the next layout
\* entry is placed
PlaceSection ==
    /\ pc = "build"
    /\ chart.stage = "place"
    /\ chart' = [chart EXCEPT
          !.items = PlacePatterns(chart.items, chart.images, layout[chart.li], 1),
          !.li = IF chart.li = Len(layout) THEN chart.li ELSE chart.li + 1,
          !.stage = IF chart.li = Len(layout) THEN "done" ELSE "place"]
    /\ UNCHANGED <<pc, bindings, tabs, xpm, selected, lastEvent>>

\* notebook.add(chart, ...): the finished chart becomes the next tab, held
\* by its gamma, its canvas items and the names of the images it retains;
\* the notebook selects the first tab it is given
NotebookAdd ==
    /\ pc = "build"
    /\ chart.stage = "done"
    /\ tabs' = Append(tabs, [gamma |-> chart.gamma, _images |-> chart._images,
                             items |-> chart.items])
    /\ chart' = NoChart
    /\ selected' = IF selected = 0 THEN 1 ELSE selected
    /\ UNCHANGED <<pc, bindings, xpm, lastEvent>>

\* notebook.pack, update_idletasks, geometry: MainWindow.__init__ returns
Display ==
    /\ pc = "build"
    /\ chart.stage = "none"
    /\ Len(tabs) = Len(gammas)
    /\ pc' = "display"
    /\ UNCHANGED <<bindings, tabs, chart, xpm, selected, lastEvent>>

\* win.mainloop()
Mainloop ==
    /\ pc = "display"
    /\ pc' = "mainloop"
    /\ UNCHANGED <<bindings, tabs, chart, xpm, selected, lastEvent>>

\* self.quit, the handler of every quit command: the event loop returns,
\* main returns and the process ends
quit == "exit"

\* the window's close button
WmDeleteWindow ==
    /\ pc = "mainloop"
    /\ "WM_DELETE_WINDOW" \in bindings
    /\ lastEvent' = "WM_DELETE_WINDOW"
    /\ pc' = quit
    /\ UNCHANGED <<bindings, tabs, chart, xpm, selected>>

\* the menu entry File > Quit
MenuQuit ==
    /\ pc = "mainloop"
    /\ "File>Quit" \in bindings
    /\ lastEvent' = "File>Quit"
    /\ pc' = quit
    /\ UNCHANGED <<bindings, tabs, chart, xpm, selected>>

\* the key binding Ctrl+Q
ControlQ ==
    /\ pc = "mainloop"
    /\ "<Control-q>" \in bindings
    /\ lastEvent' = "<Control-q>"
    /\ pc' = quit
    /\ UNCHANGED <<bindings, tabs, chart, xpm, selected>>

\* the user selects another tab of the notebook: no handler of the program runs
SelectTab ==
    /\ pc = "mainloop"
    /\ \E t \in 1..Len(tabs) :
          /\ t # selected
          /\ selected' = t
    /\ lastEvent' = "<<NotebookTabChanged>>"
    /\ UNCHANGED <<pc, bindings, tabs, chart, xpm>>

Next ==
    \/ WindowSetup
    \/ ChartBegin
    \/ CreateImage
    \/ RetainImages
    \/ PlaceSection
    \/ NotebookAdd
    \/ Display
    \/ Mainloop
    \/ WmDeleteWindow
    \/ MenuQuit
    \/ ControlQ
    \/ SelectTab

Spec == Init /\ [][Next]_vars

(***************************************************************************)
(* Vocabulary of the properties                                            *)
(***************************************************************************)
\* the side of the tile grid: image_side = xpm_side * 12
GridSide == 12

GridCoordinates == {k * xpm_side : k \in 0..(GridSide - 1)}

ColorNames == {"all", "red", "green", "blue"}

BrightnessNames == {"025", "050", "075"}

PatternNames == {t \o b : t \in {"a", "s"}, b \in BrightnessNames}

\* the colour section and the pattern name every image key is made of
KeyParts ==
    [key \in {img_key(c, n) : c \in ColorNames, n \in PatternNames} |->
        [section |-> CHOOSE c \in ColorNames :
                        \E n \in PatternNames : img_key(c, n) = key,
         pattern |-> CHOOSE n \in PatternNames :
                        \E c \in ColorNames : img_key(c, n) = key]]

SectionOf(key) == KeyParts[key].section

PatternOf(key) == KeyParts[key].pattern

ATilePatterns == {"a" \o b : b \in BrightnessNames}

IsATile(key) == PatternOf(key) \in ATilePatterns

\* the chart whose __init__ has just placed its last tile
Composed == chart.stage = "done"

\* the set of pixel colours of a PhotoImage
ColorsOf(image) ==
    {image.rows[y][x] : y \in 1..Len(image.rows), x \in 1..Len(image.rows[1])}

HexValue(c) == CHOOSE d \in 0..15 : HexDigits[d + 1] = c

\* the value of channel k (1 red, 2 green, 3 blue) of a colour "#rrggbb"
Channel(color, k) == 16 * HexValue(color[2 * k]) + HexValue(color[2 * k + 1])

\* the pixel coordinates 0 .. 2 * size - 1 of a tile
PixelRange == 0..(2 * size - 1)

\* the grid column band the layout comment gives a colour section
CommentBand(c) ==
    IF c = "all" THEN 0..2
    ELSE IF c = "red" THEN 3..5
    ELSE IF c = "green" THEN 6..8
    ELSE 9..11

\* a colour-table line: the symbol, then " c #"
IsColorLine(line) == Len(line) >= 5 /\ SubSeq(line, 2, 5) = <<SP, "c", SP, "#">>

Abs(n) == IF n < 0 THEN -n ELSE n

(***************************************************************************)
(* C1                                                                      *)
(***************************************************************************)
NoOverlap(items) ==
    \A i, j \in 1..Len(items) :
        i # j => <<items[i].x, items[i].y>> # <<items[j].x, items[j].y>>

NoGap(items) ==
    \A x \in GridCoordinates, y \in GridCoordinates :
        \E i \in 1..Len(items) : items[i].x = x /\ items[i].y = y

\* C1 as stated: a composed chart has exactly 96 tile placements, no two
\* at the same (x, y), and every cell of the 12x12 grid has a tile.
C1_NinetySixPlacements ==
    Composed =>
        /\ Len(chart.items) = 96
        /\ NoOverlap(chart.items)
        /\ NoGap(chart.items)

\* C1 amended: a composed chart has exactly 144 tile placements (4 sections
\* of 36), no two at the same (x, y), and every one of the 144 cells of the
\* 12x12 grid of 32-pixel cells has a tile.
C1_FullGridPlacements ==
    Composed =>
        /\ Len(chart.items) = GridSide * GridSide
        /\ NoOverlap(chart.items)
        /\ NoGap(chart.items)

C1_Witness ==
    /\ Composed
    /\ chart.gamma = 22
    /\ Len(chart.items) > 96

(***************************************************************************)
(* C2                                                                      *)
(***************************************************************************)
TilePairs == {<<c, b>> : c \in ColorNames, b \in BrightnessNames}

ATile(pr) == chart.images[img_key(pr[1], "a" \o pr[2])]

STile(pr) == chart.images[img_key(pr[1], "s" \o pr[2])]

\* C2 as stated: in the chart of gamma 1.0 every a-tile has the same set of
\* pixel colours as the s-tile of the same channel and brightness.
C2_SameColours ==
    (Composed /\ chart.gamma = 10) =>
        \A pr \in TilePairs : ColorsOf(ATile(pr)) = ColorsOf(STile(pr))

\* C2 amended: in the chart of gamma 1.0, for every channel and brightness
\* the a-tile shows exactly two colours and the s-tile exactly one, and each
\* of the s-tile's red, green and blue values is the mean, rounded down, of
\* that value in the a-tile's two colours.
C2_MeanColour ==
    (Composed /\ chart.gamma = 10) =>
        \A pr \in TilePairs :
            LET A == ColorsOf(ATile(pr))
                S == ColorsOf(STile(pr))
            IN  /\ Cardinality(S) = 1
                /\ \E c1, c2 \in A :
                      /\ c1 # c2
                      /\ A = {c1, c2}
                      /\ \A s \in S, k \in 1..3 :
                            Channel(s, k) =
                                (Channel(c1, k) + Channel(c2, k)) \div 2

C2_Witness ==
    /\ Composed
    /\ chart.gamma = 10
    /\ \A pr \in TilePairs : ColorsOf(ATile(pr)) # ColorsOf(STile(pr))

(***************************************************************************)
(* C3                                                                      *)
(***************************************************************************)
\* the symbols of the first and of the second colour-table entry
SymbolA(data) == <<data[2][1]>>

SymbolB(data) == <<data[3][1]>>

\* the colour-table binds symbol A to the first colour and B to the second
BoundToArgs ==
    /\ ColorMap(xpm.data)[SymbolA(xpm.data)]
          = <<"#">> \o xpm.args[1] \o xpm.args[2] \o xpm.args[3]
    /\ ColorMap(xpm.data)[SymbolB(xpm.data)]
          = <<"#">> \o xpm.args[4] \o xpm.args[5] \o xpm.args[6]

\* C3 as stated: in every AlternateXpm pixel-map the pixel at (row, col)
\* is symbol A iff row + col is even, and symbol B otherwise.
C3_AOnEven ==
    xpm.cls = "AlternateXpm" =>
        LET hd == Header(xpm.data)
        IN  /\ BoundToArgs
            /\ \A row \in PixelRange, col \in PixelRange :
                  PixelChar(xpm.data, hd, col, row) =
                      IF (row + col) % 2 = 0 THEN SymbolA(xpm.data)
                                             ELSE SymbolB(xpm.data)

\* C3 amended: in every AlternateXpm pixel-map the pixel at (row, col) is
\* symbol B (the second entry, bound to the second colour) iff row + col is
\* even, and symbol A (the first entry, bound to the first colour) otherwise.
C3_BOnEven ==
    xpm.cls = "AlternateXpm" =>
        LET hd == Header(xpm.data)
        IN  /\ BoundToArgs
            /\ \A row \in PixelRange, col \in PixelRange :
                  PixelChar(xpm.data, hd, col, row) =
                      IF (row + col) % 2 = 0 THEN SymbolB(xpm.data)
                                             ELSE SymbolA(xpm.data)

C3_Witness ==
    /\ xpm.cls = "AlternateXpm"
    /\ SymbolA(xpm.data) # SymbolB(xpm.data)
    /\ xpm.key \in DOMAIN chart.images

(***************************************************************************)
(* C4                                                                      *)
(***************************************************************************)
\* C4: for every SingleColorXpm pixel-map all 32x32 pixel symbols are the
\* same symbol, and the PhotoImage create_photo_image makes of it has the
\* colour "#" red green blue at every pixel.
C4_UniformColour ==
    xpm.cls = "SingleColorXpm" =>
        /\ LET hd == Header(xpm.data)
           IN  \A row \in PixelRange, col \in PixelRange :
                  PixelChar(xpm.data, hd, col, row) = PixelChar(xpm.data, hd, 0, 0)
        /\ xpm.key \in DOMAIN chart.images
        /\ chart.images[xpm.key].error = "none"
        /\ Len(chart.images[xpm.key].rows) = 2 * size
        /\ \A y \in 1..(2 * size) :
              /\ Len(chart.images[xpm.key].rows[y]) = 2 * size
              /\ \A x \in 1..(2 * size) :
                    chart.images[xpm.key].rows[y][x]
                        = <<"#">> \o xpm.args[1] \o xpm.args[2] \o xpm.args[3]

C4_Witness ==
    /\ xpm.cls = "SingleColorXpm"
    /\ xpm.key \in DOMAIN chart.images
    /\ xpm.args[1] # xpm.args[2]

(***************************************************************************)
(* C5                                                                      *)
(***************************************************************************)
LevelNames == <<"v000", "v025", "v050", "v075", "v100">>

LevelsInRange(c) ==
    \A i \in 1..Len(inputs) :
        /\ c.corrected[i] \in 0..255
        /\ Len(c.levels[LevelNames[i]]) = 2
        /\ 16 * HexValue(c.levels[LevelNames[i]][1])
              + HexValue(c.levels[LevelNames[i]][2]) = c.corrected[i]
        /\ c.gamma = 10 => c.corrected[i] = inputs[i]

\* C5: for every gamma of the program and every input level 0, 63, 127,
\* 191, 255 the corrected level lies in 0..255 and is formatted as exactly
\* two hex digits (of that value), and for gamma 1.0 it equals the input.
C5_CorrectedRange ==
    chart.stage # "none" => LevelsInRange(chart)

C5_Witness ==
    /\ {tabs[t].gamma : t \in 1..Len(tabs)} = {18, 20, 22}
    /\ chart.stage = "images"
    /\ chart.gamma = 10
    /\ chart.corrected = inputs

(***************************************************************************)
(* C6                                                                      *)
(***************************************************************************)
\* C6: in every pixel-map built the header counts match the data: the
\* colour-table lines are exactly the header's colour count of lines that
\* follow the header (1 for SingleColorXpm, 2 for AlternateXpm), the rows
\* after them are exactly the header's height (32) and each is as long as
\* the header's width times chars-per-pixel (32 x 1).
C6_HeaderMatchesData ==
    xpm.cls # "none" =>
        LET data == xpm.data
            hd   == Header(data)
            colorLines == {i \in 2..Len(data) : IsColorLine(data[i])}
        IN  /\ hd.num_colors = (IF xpm.cls = "SingleColorXpm" THEN 1 ELSE 2)
            /\ colorLines = 2..(1 + hd.num_colors)
            /\ Len(data) - 1 - hd.num_colors = hd.height
            /\ hd.height = 2 * size
            /\ hd.width = 2 * size
            /\ hd.chars_per_pixel = 1
            /\ \A i \in (2 + hd.num_colors)..Len(data) :
                  Len(data[i]) = hd.width * hd.chars_per_pixel

C6_Witness ==
    /\ xpm.cls = "SingleColorXpm"
    /\ Len(xpm.data) = 2 + 2 * size
    /\ \E k \in DOMAIN chart.images : IsATile(k)

(***************************************************************************)
(* C7                                                                      *)
(***************************************************************************)
\* C7: for every pixel-map built, every pixel symbol of every row is a key
\* of the colour map create_photo_image parses from the colour-table lines,
\* so the lookup never fails and the PhotoImage is made.
C7_LookupTotal ==
    xpm.cls # "none" =>
        /\ LET hd == Header(xpm.data)
               color_map == ColorMap(xpm.data)
           IN  \A row \in PixelRange, col \in PixelRange :
                  PixelChar(xpm.data, hd, col, row) \in DOMAIN color_map
        /\ pc # "crashed"
        /\ xpm.key \in DOMAIN chart.images
        /\ chart.images[xpm.key].error = "none"

C7_Witness ==
    /\ xpm.cls = "AlternateXpm"
    /\ Cardinality(DOMAIN ColorMap(xpm.data)) = 2
    /\ chart.images[xpm.key].error = "none"

(***************************************************************************)
(* C8                                                                      *)
(***************************************************************************)
Phases == <<"start", "build", "display", "mainloop", "exit">>

PhaseRank(p) == IF \E r \in 1..Len(Phases) : Phases[r] = p
                THEN CHOOSE r \in 1..Len(Phases) : Phases[r] = p
                ELSE 0

AllChartsBuilt ==
    /\ chart.stage = "none"
    /\ [t \in 1..Len(tabs) |-> tabs[t].gamma] = <<22, 20, 18, 10>>
    /\ \A t \in 1..Len(tabs) :
          /\ {tabs[t]._images[i] : i \in 1..Len(tabs[t]._images)}
                = {img_key(c, n) : c \in ColorNames, n \in PatternNames}
          /\ Len(tabs[t].items) = Len(layout) * Len(patterns)

\* C8: the run passes through start, build, display, event loop, exit in
\* that order, one step forward at a time and never back; charts are built
\* only in the build phase, in the order 2.2, 2.0, 1.8, 1.0; from display on
\* all four charts are complete and never change; the event loop is left
\* only by a quit command, and every quit command leaves it for exit.
C8_LinearPhases ==
    /\ [][PhaseRank(pc) > 0 /\ PhaseRank(pc') > 0
          /\ (PhaseRank(pc') = PhaseRank(pc) \/ PhaseRank(pc') = PhaseRank(pc) + 1)]_vars
    /\ [][(tabs' # tabs \/ chart' # chart) => (pc = "build" /\ pc' = "build")]_vars
    /\ [](PhaseRank(pc) >= 3 => AllChartsBuilt)
    /\ [][Len(tabs') > Len(tabs) =>
             /\ Len(tabs') = Len(tabs) + 1
             /\ tabs'[Len(tabs')].gamma = <<22, 20, 18, 10>>[Len(tabs')]]_vars
    /\ [][(pc = "mainloop" /\ pc' # "mainloop") =>
             (lastEvent' \in QuitCommands /\ pc' = "exit")]_vars
    /\ [][(pc = "mainloop" /\ lastEvent' \in QuitCommands) => pc' = "exit"]_vars

C8_Witness ==
    /\ pc = "exit"
    /\ lastEvent \in QuitCommands
    /\ AllChartsBuilt

(***************************************************************************)
(* C9                                                                      *)
(***************************************************************************)
\* C9: in every composed chart every tile of a colour section lies in the
\* grid columns the layout comment gives the section: all 0-2, red 3-5,
\* green 6-8, blue 9-11 (grid column = x / 32).
C9_ColumnBands ==
    Composed =>
        \A i \in 1..Len(chart.items) :
            (chart.items[i].x \div xpm_side)
                \in CommentBand(SectionOf(chart.items[i].image))

(***************************************************************************)
(* C10                                                                     *)
(***************************************************************************)
\* a rendered tile is a checkerboard: its first two pixels differ
IsCheckerboard(image) == image.rows[1][1] # image.rows[1][2]

SectionOrigin(items, c) ==
    LET mine == {i \in 1..Len(items) : SectionOf(items[i].image) = c}
    IN  [x |-> CHOOSE x \in {items[i].x : i \in mine} :
                   \A i \in mine : x <= items[i].x,
         y |-> CHOOSE y \in {items[i].y : i \in mine} :
                   \A i \in mine : y <= items[i].y]

\* C10: in a composed chart an 'a' tile renders a checkerboard and an 's'
\* tile does not; two tiles of one colour section that are neighbours in a
\* row or a column of the grid are one 'a' and one 's' tile; and the tile at
\* position (col, row) of its section is an 'a' tile iff col + row is even.
C10_Alternation ==
    Composed =>
        LET items == chart.items
            origin == [c \in ColorNames |-> SectionOrigin(items, c)]
        IN  /\ \A i \in 1..Len(items) :
                  LET it == items[i]
                      o  == origin[SectionOf(it.image)]
                      col == (it.x - o.x) \div xpm_side
                      row == (it.y - o.y) \div xpm_side
                  IN  /\ IsATile(it.image) <=> IsCheckerboard(chart.images[it.image])
                      /\ IsATile(it.image) <=> ((col + row) % 2 = 0)
            /\ \A i, j \in 1..Len(items) :
                  ( /\ SectionOf(items[i].image) = SectionOf(items[j].image)
                    /\ Abs(items[i].x - items[j].x) + Abs(items[i].y - items[j].y)
                          = xpm_side )
                  => (IsATile(items[i].image) # IsATile(items[j].image))

C10_Witness ==
    /\ Composed
    /\ \E i, j \in 1..Len(chart.items) :
          /\ SectionOf(chart.items[i].image) = "green"
          /\ SectionOf(chart.items[j].image) = "green"
          /\ chart.items[i].y = chart.items[j].y
          /\ chart.items[j].x = chart.items[i].x + xpm_side
          /\ IsATile(chart.items[i].image)
          /\ ~IsATile(chart.items[j].image)

====
